---- MODULE Spec2Model ----
(***************************************************************************)
(* Netcode of the Flappy multiplayer game: the authority (server.py,       *)
(* physics_server.py, physics_core.py, data_models.py) and the client      *)
(* (flappy_client.py with the ClientEngine of physics_engine.py).          *)
(*                                                                         *)
(* Floats are fixed-point integers: a position or a velocity q is held as  *)
(* q * Unit, Unit = 10^4, the precision round(., 4) of the physics keeps.  *)
(***************************************************************************)
EXTENDS Integers, Sequences, FiniteSets, TLC

\* ------------------------------------------------------------ constants.py
SERVER_TICK_RATE == 30
SCREEN_WIDTH == 480
SCREEN_HEIGHT == 800
BIRD_X == 100
PIPE_WIDTH == 80
PIPE_GAP == 200
PIPE_SPEED_PPS == 250
PIPE_SPAWN_INTERVAL_TICKS == 90
GRAVITY_ACCEL == 1800
JUMP_IMPULSE == -600
MAX_FALL_VELOCITY == 1000
BIRD_RADIUS == 20
RESPAWN_Y == SCREEN_HEIGHT \div 2

\* ------------------------------------------------------------ fixed point
\* One unit of the model is 10^-4 of a pixel (or of a pixel per second).
Unit == 10000
\* The 2-decimal precision of the wire (to_client_state) in model units.
WireUnit == 100

Abs(a) == IF a < 0 THEN -a ELSE a

Min(a, b) == IF a < b THEN a ELSE b

Max(a, b) == IF a > b THEN a ELSE b

\* round(base + a / b) for an integer base and b > 0 as Python rounds: to the
\* nearest integer, a tie to the even one.
RoundAdd(base, a, b) ==
    LET q == base + (a \div b)
        r == a % b
    IN  IF 2 * r < b THEN q
        ELSE IF 2 * r > b THEN q + 1
        ELSE IF q % 2 = 0 THEN q ELSE q + 1

\* round(a / b)
RoundDiv(a, b) == RoundAdd(0, a, b)

\* round(x, 2) of a value held in model units, still in model units.
Round2(x) == RoundDiv(x, WireUnit) * WireUnit

\* ------------------------------------------------------------ bounds
\* Highest sequence number a sender issues in the authority's specification.
MaxSeq == 2
\* Number of ticks the simulation loop runs in the authority's specification.
MaxTick == 2

\* Highest sequence number send_flap issues in the client's specification.
MaxClientSeq == 3
\* Number of fixed ticks run_game executes in the client's specification.
MaxClientTicks == 2
\* Highest last_seq a delivered state message carries.
MaxAck == 2
\* Highest sequence number send_flap issues in the buffer-overflow specification.
MaxOverflowSeq == 201
\* Number of fixed ticks run_game executes in the buffer-overflow specification.
MaxOverflowTicks == 1
\* Number of ticks authority and client run side by side.
MaxLockTicks == 7
\* Number of calls of ServerEngine.step between the datagrams of the
\* specification of the receive loop.
MaxNetTicks == 2
\* Number of calls of ServerEngine.step with free flap inputs.
MaxFlightTicks == 24
\* Number of calls of ServerEngine.step in the specification of the pipes, and
\* the number of flaps those calls apply to a living player (a dead player's
\* flap, a respawn, is not counted).
MaxEngineTicks == 160
MaxEngineFlaps == 1
\* Number of calls of ServerEngine.step in the specification of the respawns,
\* and the number of flaps those calls apply to a living player.
MaxRespawnTicks == 140
MaxRespawnFlaps == 0
\* Number of calls of ServerEngine.step in the specification of the pipes'
\* lifetimes: the second pipe spawns in call 180.
MaxPipeTicks == 200
\* Datagrams that can wait at game_sock at once.
MaxInbox == 2
\* Ticks of the authority whose state messages reach the client, and fixed
\* ticks the client runs, in the specification of the snapshot slot.
MaxSlotTick == 3
MaxSlotTicks == 3
\* Flaps the client issues in that specification.
MaxSlotSeq == 1

Users == {"u1"}
Addrs == {"a1"}
\* Addresses datagrams come from in the specification of the receive loop: the
\* address of a client and one more.
Senders == {"a1", "a2"}
Passwords == {"p1", "p2"}
\* Gap centres _spawn_pipe may draw (random.randint over [100, 700]).
GapYs == {PIPE_GAP \div 2, SCREEN_HEIGHT \div 2, SCREEN_HEIGHT - PIPE_GAP \div 2}

VARIABLES
    \* ---- authority (FlappyServer)
    players,        \* self.players: the dict as a sequence of Player, in insertion order
    db,             \* Database: username -> [password, best]
    engine,         \* ServerEngine: tick_count, pipes, pipe_spawn_counter
    gl_pc,          \* position of _game_loop
    gl_idx,         \* position of the dict iterator of _game_loop's collection loop
    gl_len,         \* dict size the iterator saw when it was created
    flaps_this_tick,\* flaps_this_tick of _game_loop
    net_pc,         \* position of _network_loop
    net_msg,        \* the input message _handle_input is processing
    snapshot,       \* the state message last broadcast
    reply,          \* the last datagram the receive loop sent back
    wire,           \* per username, the flap of every input datagram sent so far
    \* ---- history of which input's flap went where
    slot_seq,       \* per username, the seq of the input whose flap is in pending_flap (0: none)
    read_seq,       \* per username, the seq of the input whose flap the collection read (0: none)
    applied,        \* per username, the seqs whose flap a simulation step has consumed
    latest,         \* per username, the seq of the last input handled since the last collection
    expected,       \* per username, the flap of that input at the collection (FALSE if none)
    player_addrs,   \* self.player_addrs: address -> username
    logged_addrs,   \* the addresses a login_success has been sent to
    \* ---- client (ClientGame, NetworkClient, run_game)
    local_players,  \* self.local_players: username -> PlayerState
    pipes,          \* self.pipes
    next_input_seq, \* self.next_input_seq
    pending_inputs, \* self.pending_inputs
    latest_state,   \* NetworkClient.latest_state (NoState: the empty dict)
    server_addr,    \* NetworkClient.server_addr ("": None)
    cl_pc,          \* position of run_game's main thread
    auth_state,     \* auth_state of run_game's fixed tick
    last_sent,      \* the datagram last handed to the socket by send_json
    cl_ticks,       \* number of fixed ticks run_game has executed
    logged_in,      \* NetworkClient.logged_in
    cl_msg,         \* type of the message _handle_message processed last ("": none yet)
    rec_tick,       \* tick of the snapshot reconcile_with_authoritative was last called with (0: none)
    \* ---- authority and client stepped side by side
    lk_client,      \* the client's PlayerState of the local actor
    lk_server,      \* the authority's Player of the same actor
    lk_ticks,       \* ticks executed on both sides
    \* ---- ServerEngine.step called tick after tick with any flap inputs
    births,         \* per pipe of engine.pipes, the tick that spawned it
    credit,         \* per username, the spawn tick of the pipe behind each score increment
    flaps_used,     \* number of flaps the engine has applied to a living player
    \* ---- one physics step on chosen arguments
    ph,             \* the arguments and what each implementation returned
    \* ---- the threads and the signals that end them
    running,        \* FlappyServer.running (the threading.Event) is set
    stop_pc,        \* position of the thread that calls FlappyServer.stop
    network_thread, \* position of _network_loop's thread
    game_thread,    \* position of _game_loop's thread
    discovery_thread, \* position of _discovery_loop's thread
    inbox,          \* datagrams waiting at game_sock
    listening,      \* NetworkClient.listening
    listen_thread   \* position of _listen_loop's thread

serverVars == <<players, db, engine, gl_pc, gl_idx, gl_len, flaps_this_tick,
                net_pc, net_msg, snapshot, reply, wire,
                slot_seq, read_seq, applied, latest, expected, logged_addrs,
                player_addrs>>

clientVars == <<local_players, pipes, next_input_seq, pending_inputs, latest_state,
                server_addr, cl_pc, auth_state, last_sent, cl_ticks, logged_in, cl_msg,
                rec_tick>>

lockVars == <<lk_client, lk_server, lk_ticks>>

engineVars == <<births, credit, flaps_used>>

physVars == <<ph>>

stopVars == <<running, stop_pc, network_thread, game_thread, discovery_thread,
              inbox, listening, listen_thread>>

vars == <<serverVars, clientVars, lockVars, engineVars, physVars, stopVars>>

\* ------------------------------------------------------------ sequences
SeqMap(f(_), s) == [i \in 1..Len(s) |-> f(s[i])]

\* Python's s[-n:] for n > 0.
LastN(s, n) == IF Len(s) <= n THEN s ELSE SubSeq(s, Len(s) - n + 1, Len(s))

\* ------------------------------------------------------------ data_models.py
\* Player(id=username, addr=addr) with the dataclass defaults.
NewPlayer(username, addr) ==
    [id |-> username, y |-> RESPAWN_Y * Unit, velocity |-> 0, alive |-> TRUE,
     score |-> 0, addr |-> addr, pending_flap |-> FALSE, last_seq_received |-> 0]

\* Player.to_client_state: y and v rounded to two decimals.
ToClientState(p) ==
    [y |-> Round2(p.y), v |-> Round2(p.velocity), alive |-> p.alive,
     score |-> p.score, last_seq |-> p.last_seq_received]

\* ------------------------------------------------------------ physics_core.py
\* A step that moves with the old velocity and applies gravity afterwards.
MoveThenGravity(y, velocity) ==
    LET v30 == Min(SERVER_TICK_RATE * velocity + GRAVITY_ACCEL * Unit,
                   SERVER_TICK_RATE * MAX_FALL_VELOCITY * Unit)
    IN  [y |-> RoundAdd(y, velocity, SERVER_TICK_RATE),
         velocity |-> RoundDiv(v30, SERVER_TICK_RATE)]

\* PhysicsCore.apply_gravity_and_movement with DT = 1 / SERVER_TICK_RATE.
\* v30 is the unrounded new velocity in thirtieths of a model unit.
ApplyGravityAndMovement(y, velocity) ==
    LET v30 == Min(SERVER_TICK_RATE * velocity + GRAVITY_ACCEL * Unit,
                   SERVER_TICK_RATE * MAX_FALL_VELOCITY * Unit)
    IN  [y |-> RoundAdd(y, v30, SERVER_TICK_RATE * SERVER_TICK_RATE),
         velocity |-> RoundDiv(v30, SERVER_TICK_RATE)]

\* PhysicsCore.flap
Flap == JUMP_IMPULSE * Unit

\* A collision test without the floor.
CheckCollisionNoFloor(y, pipe_list) ==
    \/ y <= 0
    \/ \E i \in 1..Len(pipe_list) :
          /\ pipe_list[i].x - BIRD_RADIUS * Unit < BIRD_X * Unit
          /\ BIRD_X * Unit < pipe_list[i].x + (PIPE_WIDTH + BIRD_RADIUS) * Unit
          /\ ~ ( /\ pipe_list[i].gap_y - (PIPE_GAP \div 2) * Unit < y
                 /\ y < pipe_list[i].gap_y + (PIPE_GAP \div 2) * Unit )

\* PhysicsCore.check_collision
CheckCollision(y, pipe_list) ==
    \/ y <= 0
    \/ y >= SCREEN_HEIGHT * Unit
    \/ \E i \in 1..Len(pipe_list) :
          /\ pipe_list[i].x - BIRD_RADIUS * Unit < BIRD_X * Unit
          /\ BIRD_X * Unit < pipe_list[i].x + (PIPE_WIDTH + BIRD_RADIUS) * Unit
          /\ ~ ( /\ pipe_list[i].gap_y - (PIPE_GAP \div 2) * Unit < y
                 /\ y < pipe_list[i].gap_y + (PIPE_GAP \div 2) * Unit )

\* A respawn that leaves the velocity as it was.
RespawnKeepsVelocity(p) ==
    [p EXCEPT !.y = RESPAWN_Y * Unit, !.alive = TRUE, !.score = 0]

\* PhysicsCore.respawn
Respawn(p) ==
    [p EXCEPT !.y = RESPAWN_Y * Unit, !.velocity = 0, !.alive = TRUE, !.score = 0]

\* ------------------------------------------------------------ physics_server.py
\* A move at half of PIPE_SPEED_PPS.
MovePipeSlow(pipe) ==
    [pipe EXCEPT !.x = RoundDiv(2 * SERVER_TICK_RATE * pipe.x - PIPE_SPEED_PPS * Unit,
                                2 * SERVER_TICK_RATE)]

\* pipe.x -= pipe_delta_x; pipe.x = round(pipe.x, 4), pipe_delta_x = PIPE_SPEED_PPS * DT
MovePipe(pipe) ==
    [pipe EXCEPT !.x = RoundDiv(SERVER_TICK_RATE * pipe.x - PIPE_SPEED_PPS * Unit,
                                SERVER_TICK_RATE)]

\* A score test that only asks whether the pipe is behind the bird.
BehindBird(pipe) == pipe.x < BIRD_X * Unit

\* The pipe crossed BIRD_X in this step: pipe.x < BIRD_X <= pipe.x + pipe_delta_x.
CrossedBird(pipe) ==
    /\ pipe.x < BIRD_X * Unit
    /\ SERVER_TICK_RATE * pipe.x + PIPE_SPEED_PPS * Unit
          >= SERVER_TICK_RATE * BIRD_X * Unit

\* A spawn test that lets the countdown pass the interval by one.
SpawnDueLate(counter) == counter > PIPE_SPAWN_INTERVAL_TICKS

\* if self.pipe_spawn_counter >= PIPE_SPAWN_INTERVAL_TICKS
SpawnDue(counter) == counter >= PIPE_SPAWN_INTERVAL_TICKS

\* Step 1 of ServerEngine.step: the spawn countdown, _spawn_pipe (gap is the
\* random gap_y), the move and the filter of the pipes that left the screen.
StepPipes(eng, gap) ==
    LET counter == eng.pipe_spawn_counter + 1
        spawn == SpawnDue(counter)
        spawned == IF spawn
                   THEN Append(eng.pipes, [x |-> SCREEN_WIDTH * Unit, gap_y |-> gap * Unit])
                   ELSE eng.pipes
        moved == SeqMap(MovePipe, spawned)
        InWorld(pipe) == pipe.x > -PIPE_WIDTH * Unit
    IN  [tick_count |-> eng.tick_count + 1,
         pipes |-> SelectSeq(moved, InWorld),
         pipe_spawn_counter |-> IF spawn THEN 0 ELSE counter]

\* A step in which a dead player without a flap is moved like a living one.
StepServerPlayerFalls(p, flap, pipe_list) ==
    IF ~p.alive /\ flap
    THEN [p EXCEPT !.y = RESPAWN_Y * Unit, !.velocity = 0, !.alive = TRUE, !.score = 0]
    ELSE LET m == ApplyGravityAndMovement(p.y, IF flap THEN Flap ELSE p.velocity)
         IN  [p EXCEPT !.y = m.y, !.velocity = m.velocity,
                       !.alive = p.alive /\ ~CheckCollision(m.y, pipe_list)]

\* Steps 2 and 3 of ServerEngine.step for one player: the body of the loop over
\* players.items(), flap being flap_inputs.get(username, False).
StepServerPlayer(p, flap, pipe_list) ==
    IF ~p.alive
    THEN IF flap THEN Respawn(p) ELSE p
    ELSE LET v0 == IF flap THEN Flap ELSE p.velocity
             m == ApplyGravityAndMovement(p.y, v0)
             crossed == Cardinality({i \in 1..Len(pipe_list) : CrossedBird(pipe_list[i])})
         IN  [p EXCEPT !.y = m.y, !.velocity = m.velocity,
                       !.alive = ~CheckCollision(m.y, pipe_list),
                       !.score = p.score + crossed]

\* flap_inputs.get(username, False)
FlapOf(flaps, username) ==
    IF username \in DOMAIN flaps THEN flaps[username] ELSE FALSE

\* ServerEngine.step on the players dict (a sequence in insertion order).
StepPlayers(ps, flaps, pipe_list) ==
    [i \in 1..Len(ps) |-> StepServerPlayer(ps[i], FlapOf(flaps, ps[i].id), pipe_list)]

\* ------------------------------------------------------------ server.py
\* username in self.players
InPlayers(ps, username) == \E i \in 1..Len(ps) : ps[i].id = username

\* The place of username in the dict.
PlayerIdx(ps, username) == CHOOSE i \in 1..Len(ps) : ps[i].id = username

NoMsg == [username |-> "", seq |-> 0, flap |-> FALSE, addr |-> ""]

NoReply == [type |-> "", to |-> ""]

ServerInit ==
    /\ players = <<>>
    /\ db = <<>>
    /\ engine = [tick_count |-> 0, pipes |-> <<>>, pipe_spawn_counter |-> 0]
    /\ gl_pc = "top"
    /\ gl_idx = 1
    /\ gl_len = 0
    /\ flaps_this_tick = <<>>
    /\ net_pc = "recv"
    /\ net_msg = NoMsg
    /\ snapshot = [tick |-> 0, players |-> <<>>, pipes |-> <<>>]
    /\ reply = NoReply
    /\ wire = [u \in Users |-> <<>>]
    /\ slot_seq = [u \in Users |-> 0]
    /\ read_seq = [u \in Users |-> 0]
    /\ applied = [u \in Users |-> {}]
    /\ latest = [u \in Users |-> 0]
    /\ expected = [u \in Users |-> FALSE]
    /\ logged_addrs = {}
    /\ player_addrs = <<>>

\* A client issues its next input datagram (send_input): seq is its place in wire.
ClientSend(u, flap) ==
    /\ Len(wire[u]) < MaxSeq
    /\ wire' = [wire EXCEPT ![u] = Append(@, flap)]
    /\ UNCHANGED <<clientVars, lockVars, engineVars, physVars, stopVars>>
    /\ UNCHANGED <<logged_addrs, player_addrs>>
    /\ UNCHANGED <<players, db, engine, gl_pc, gl_idx, gl_len, flaps_this_tick,
                   net_pc, net_msg, snapshot, reply,
                   slot_seq, read_seq, applied, latest, expected>>

\* A login that puts a new Player in place of the one the username has.
NetLoginResets(u, pw, a) ==
    /\ net_pc = "recv"
    /\ IF u \in DOMAIN db /\ db[u].password # pw
       THEN /\ reply' = [type |-> "login_failed", to |-> a]
            /\ UNCHANGED <<players, db, logged_addrs, player_addrs>>
       ELSE /\ db' = IF u \in DOMAIN db THEN db
                     ELSE (u :> [password |-> pw, best |-> 0]) @@ db
            /\ players' = IF InPlayers(players, u)
                          THEN [players EXCEPT ![PlayerIdx(players, u)] = NewPlayer(u, a)]
                          ELSE Append(players, NewPlayer(u, a))
            /\ reply' = [type |-> "login_success", to |-> a]
            /\ player_addrs' = IF InPlayers(players, u) THEN player_addrs
                               ELSE (a :> u) @@ player_addrs
            /\ logged_addrs' = logged_addrs \cup {a}
    /\ UNCHANGED <<clientVars, lockVars, engineVars, physVars, stopVars>>
    /\ UNCHANGED <<engine, gl_pc, gl_idx, gl_len, flaps_this_tick, net_pc, net_msg,
                   snapshot, wire, slot_seq, read_seq, applied, latest, expected>>

\* _network_loop, msg_type == "login": _handle_login.
NetLogin(u, pw, a) ==
    /\ net_pc = "recv"
    /\ IF u \in DOMAIN db /\ db[u].password # pw
       THEN /\ reply' = [type |-> "login_failed", to |-> a]
            /\ UNCHANGED <<players, db, logged_addrs, player_addrs>>
       ELSE /\ db' = IF u \in DOMAIN db THEN db
                     ELSE (u :> [password |-> pw, best |-> 0]) @@ db
            /\ players' = IF InPlayers(players, u) THEN players
                          ELSE Append(players, NewPlayer(u, a))
            /\ reply' = [type |-> "login_success", to |-> a]
            /\ player_addrs' = IF InPlayers(players, u) THEN player_addrs
                               ELSE (a :> u) @@ player_addrs
            /\ logged_addrs' = logged_addrs \cup {a}
    /\ UNCHANGED <<clientVars, lockVars, engineVars, physVars, stopVars>>
    /\ UNCHANGED <<engine, gl_pc, gl_idx, gl_len, flaps_this_tick, net_pc, net_msg,
                   snapshot, wire, slot_seq, read_seq, applied, latest, expected>>

\* _network_loop, msg_type == "input" and username in self.players:
\* _handle_input up to player.pending_flap = message.get("flap", False).
\* The datagram is any one sent so far: the transport may delay, repeat and
\* reorder. a is the address recvfrom returned with it; the branch looks at the
\* username of the message only.
NetInputFlap(u, seq, a) ==
    /\ net_pc = "recv"
    /\ seq \in 1..Len(wire[u])
    /\ InPlayers(players, u)
    /\ players' = [players EXCEPT ![PlayerIdx(players, u)].pending_flap = wire[u][seq]]
    /\ net_msg' = [username |-> u, seq |-> seq, flap |-> wire[u][seq], addr |-> a]
    /\ net_pc' = "input_seq"
    /\ slot_seq' = [slot_seq EXCEPT ![u] = seq]
    /\ latest' = [latest EXCEPT ![u] = seq]
    /\ UNCHANGED <<clientVars, lockVars, engineVars, physVars, stopVars>>
    /\ UNCHANGED <<logged_addrs, player_addrs>>
    /\ UNCHANGED <<db, engine, gl_pc, gl_idx, gl_len, flaps_this_tick, snapshot,
                   reply, wire, read_seq, applied, expected>>

\* _handle_input: player.last_seq_received = message.get("seq", 0).
NetInputSeq ==
    /\ net_pc = "input_seq"
    /\ players' = IF InPlayers(players, net_msg.username)
                  THEN [players EXCEPT ![PlayerIdx(players, net_msg.username)]
                                           .last_seq_received = net_msg.seq]
                  ELSE players
    /\ net_msg' = NoMsg
    /\ net_pc' = "recv"
    /\ UNCHANGED <<clientVars, lockVars, engineVars, physVars, stopVars>>
    /\ UNCHANGED <<logged_addrs, player_addrs>>
    /\ UNCHANGED <<db, engine, gl_pc, gl_idx, gl_len, flaps_this_tick, snapshot,
                   reply, wire, slot_seq, read_seq, applied, latest, expected>>

\* _network_loop, else branch: an input whose username is not in self.players,
\* or a message of any other type: _send_error(addr, "unknown_message", ...).
NetReject(a) ==
    /\ net_pc = "recv"
    /\ reply' = [type |-> "unknown_message", to |-> a]
    /\ UNCHANGED <<clientVars, lockVars, engineVars, physVars, stopVars>>
    /\ UNCHANGED <<logged_addrs, player_addrs>>
    /\ UNCHANGED <<players, db, engine, gl_pc, gl_idx, gl_len, flaps_this_tick,
                   net_pc, net_msg, snapshot, wire,
                   slot_seq, read_seq, applied, latest, expected>>

\* The sequence s without its element at place i.
RemoveAt(s, i) == [k \in 1..(Len(s) - 1) |-> IF k < i THEN s[k] ELSE s[k + 1]]

\* _network_loop, except ConnectionResetError (recvfrom raises it on the
\* platforms that report an unreachable peer on the socket): addr is still the
\* address of the datagram received before, so there has been one, and
\* _handle_disconnect(addr) pops the address, pops its player and saves the
\* player's score.
NetConnReset(a) ==
    /\ net_pc = "recv"
    /\ reply.type # ""
    /\ player_addrs' = [b \in DOMAIN player_addrs \ {a} |-> player_addrs[b]]
    /\ IF a \in DOMAIN player_addrs /\ InPlayers(players, player_addrs[a])
       THEN LET u == player_addrs[a]
                i == PlayerIdx(players, u)
            IN  /\ players' = RemoveAt(players, i)
                /\ db' = [db EXCEPT ![u].best = Max(@, players[i].score)]
                /\ slot_seq' = [slot_seq EXCEPT ![u] = 0]
                /\ latest' = [latest EXCEPT ![u] = 0]
       ELSE UNCHANGED <<players, db, slot_seq, latest>>
    /\ UNCHANGED <<clientVars, lockVars, engineVars, physVars, stopVars>>
    /\ UNCHANGED <<engine, gl_pc, gl_idx, gl_len, flaps_this_tick, net_pc, net_msg,
                   snapshot, reply, wire, read_seq, applied, expected, logged_addrs>>

\* _network_loop on {"type": "disconnect", "username": u} from address a (what
\* run_game sends on QUIT and ESCAPE): msg_type is neither "login" nor "input",
\* so the else branch answers with _send_error; _handle_disconnect is called
\* from the ConnectionResetError handler only.
NetDisconnect(u, a) ==
    /\ net_pc = "recv"
    /\ reply' = [type |-> "unknown_message", to |-> a]
    /\ UNCHANGED <<clientVars, lockVars, engineVars, physVars, stopVars>>
    /\ UNCHANGED <<logged_addrs, player_addrs>>
    /\ UNCHANGED <<players, db, engine, gl_pc, gl_idx, gl_len, flaps_this_tick,
                   net_pc, net_msg, snapshot, wire,
                   slot_seq, read_seq, applied, latest, expected>>

\* _game_loop, top of an iteration: flaps_this_tick = {} and the iterator over
\* self.players.items() is created.
GameTickStart ==
    /\ gl_pc = "top"
    /\ engine.tick_count < MaxTick
    /\ flaps_this_tick' = <<>>
    /\ gl_idx' = 1
    /\ gl_len' = Len(players)
    /\ gl_pc' = "collect"
    /\ UNCHANGED <<clientVars, lockVars, engineVars, physVars, stopVars>>
    /\ UNCHANGED <<logged_addrs, player_addrs>>
    /\ UNCHANGED <<players, db, engine, net_pc, net_msg, snapshot, reply, wire,
                   slot_seq, read_seq, applied, latest, expected>>

\* The iterator's next() finds the dict changed size: RuntimeError, which
\* nothing in _game_loop catches, so the thread ends.
GameCrash ==
    /\ gl_pc \in {"collect"}
    /\ Len(players) # gl_len
    /\ gl_pc' = "crashed"
    /\ UNCHANGED <<clientVars, lockVars, engineVars, physVars, stopVars>>
    /\ UNCHANGED <<logged_addrs, player_addrs>>
    /\ UNCHANGED <<players, db, engine, gl_idx, gl_len, flaps_this_tick, net_pc,
                   net_msg, snapshot, reply, wire,
                   slot_seq, read_seq, applied, latest, expected>>

\* flaps_this_tick[username] = p.pending_flap
GameCollectRead ==
    /\ gl_pc = "collect"
    /\ Len(players) = gl_len
    /\ gl_idx <= gl_len
    /\ LET p == players[gl_idx]
       IN  /\ flaps_this_tick' = (p.id :> p.pending_flap) @@ flaps_this_tick
           /\ read_seq' = [read_seq EXCEPT ![p.id] = slot_seq[p.id]]
           /\ expected' = [expected EXCEPT ![p.id] =
                              IF latest[p.id] = 0 THEN FALSE
                              ELSE wire[p.id][latest[p.id]]]
           /\ latest' = [latest EXCEPT ![p.id] = 0]
    /\ gl_pc' = "reset"
    /\ UNCHANGED <<clientVars, lockVars, engineVars, physVars, stopVars>>
    /\ UNCHANGED <<logged_addrs, player_addrs>>
    /\ UNCHANGED <<players, db, engine, gl_idx, gl_len, net_pc, net_msg, snapshot,
                   reply, wire, slot_seq, applied>>

\* p.pending_flap = False. When _handle_disconnect has popped the player since
\* the read, p is an object the dict no longer holds and the assignment changes
\* nothing the program sees.
GameCollectReset ==
    /\ gl_pc = "reset"
    /\ IF gl_idx <= Len(players)
       THEN /\ players' = [players EXCEPT ![gl_idx].pending_flap = FALSE]
            /\ slot_seq' = [slot_seq EXCEPT ![players[gl_idx].id] = 0]
       ELSE UNCHANGED <<players, slot_seq>>
    /\ gl_idx' = gl_idx + 1
    /\ gl_pc' = "collect"
    /\ UNCHANGED <<clientVars, lockVars, engineVars, physVars, stopVars>>
    /\ UNCHANGED <<logged_addrs, player_addrs>>
    /\ UNCHANGED <<db, engine, gl_len, flaps_this_tick, net_pc, net_msg, snapshot,
                   reply, wire, read_seq, applied, latest, expected>>

\* self.server_engine.step(self.players, flaps_this_tick)
GameStep ==
    /\ gl_pc = "collect"
    /\ Len(players) = gl_len
    /\ gl_idx > gl_len
    /\ \E gap \in GapYs :
          /\ engine' = StepPipes(engine, gap)
          /\ players' = StepPlayers(players, flaps_this_tick, engine'.pipes)
    /\ applied' = [u \in Users |->
                      IF u \in DOMAIN flaps_this_tick /\ read_seq[u] # 0
                      THEN applied[u] \cup {read_seq[u]} ELSE applied[u]]
    /\ gl_pc' = "snapshot"
    /\ UNCHANGED <<clientVars, lockVars, engineVars, physVars, stopVars>>
    /\ UNCHANGED <<logged_addrs, player_addrs>>
    /\ UNCHANGED <<db, gl_idx, gl_len, flaps_this_tick, net_pc, net_msg, snapshot,
                   reply, wire, slot_seq, read_seq, latest, expected>>

\* {"x": round(pipe.x, 2), "gap_y": round(pipe.gap_y, 2)}
PipeToWire(pipe) == [x |-> Round2(pipe.x), gap_y |-> Round2(pipe.gap_y)]

\* db.update_score(uid, p.score) for every dead player: best = MAX(best, score).
SaveScores(d, ps) ==
    [u \in DOMAIN d |->
        IF InPlayers(ps, u) /\ ~ps[PlayerIdx(ps, u)].alive
        THEN [d[u] EXCEPT !.best = Max(@, ps[PlayerIdx(ps, u)].score)]
        ELSE d[u]]

\* players_state and the state message of _game_loop.
BuildState(eng, ps) ==
    [tick |-> eng.tick_count,
     players |-> [u \in {ps[i].id : i \in 1..Len(ps)} |->
                     ToClientState(ps[PlayerIdx(ps, u)])],
     pipes |-> SeqMap(PipeToWire, eng.pipes)]

\* _game_loop steps 3 and 4: save the scores of the dead, build the state
\* message and broadcast it; then the loop sleeps to the next tick.
GameSnapshot ==
    /\ gl_pc = "snapshot"
    /\ db' = SaveScores(db, players)
    /\ snapshot' = BuildState(engine, players)
    /\ gl_pc' = "top"
    /\ UNCHANGED <<clientVars, lockVars, engineVars, physVars, stopVars>>
    /\ UNCHANGED <<logged_addrs, player_addrs>>
    /\ UNCHANGED <<players, engine, gl_idx, gl_len, flaps_this_tick, net_pc, net_msg,
                   reply, wire, slot_seq, read_seq, applied, latest, expected>>

\* ------------------------------------------------------------ physics_engine.py
\* ClientEngine defaults: gravity = 0.45, flap_strength = -9.0,
\* terminal_velocity = 15.0, in pixels per tick, held in model units.
CLIENT_GRAVITY == 4500
CLIENT_FLAP_STRENGTH == -90000
CLIENT_TERMINAL_VELOCITY == 150000

\* PlayerState(username) with the dataclass defaults.
NewPlayerState(username) ==
    [username |-> username, y |-> (SCREEN_HEIGHT \div 2) * Unit, v |-> 0,
     alive |-> TRUE, score |-> 0]

\* ClientEngine.apply_gravity
ClientApplyGravity(velocity) ==
    IF velocity + CLIENT_GRAVITY > CLIENT_TERMINAL_VELOCITY
    THEN CLIENT_TERMINAL_VELOCITY
    ELSE velocity + CLIENT_GRAVITY

\* The pipe test of ClientEngine.step_player.
ClientHitsPipe(y, pipe) ==
    /\ pipe.x < BIRD_X * Unit
    /\ BIRD_X * Unit < pipe.x + PIPE_WIDTH * Unit
    /\ ~(pipe.gap_y < y /\ y < pipe.gap_y + PIPE_GAP * Unit)

\* ClientEngine.step_player
ClientStepPlayer(p, flap, ps) ==
    IF ~p.alive THEN p
    ELSE LET v1 == ClientApplyGravity(IF flap THEN CLIENT_FLAP_STRENGTH ELSE p.v)
             y1 == p.y + v1
             dead == \/ y1 <= 0
                     \/ y1 >= SCREEN_HEIGHT * Unit
                     \/ \E i \in 1..Len(ps) : ClientHitsPipe(y1, ps[i])
         IN  [p EXCEPT !.v = v1, !.y = y1, !.alive = ~dead]

\* ------------------------------------------------------------ flappy_client.py
\* self.reconcile_threshold (1.5 pixels) and the velocity threshold (0.5) of
\* reconcile_with_authoritative, in model units.
RECONCILE_THRESHOLD == 15000
VELOCITY_THRESHOLD == 5000
\* High-water and low-water marks of the pending buffer.
PENDING_HIGH == 200
PENDING_LOW == 100

\* The username this client plays.
Me == "u1"

NoState == [tick |-> 0, players |-> <<>>, pipes |-> <<>>, empty |-> TRUE]

NoDatagram == [type |-> "", seq |-> 0, flap |-> FALSE]

\* self.local_players.get(self.username, PlayerState(self.username))
LocalOrDefault(lp) == IF Me \in DOMAIN lp THEN lp[Me] ELSE NewPlayerState(Me)

\* Purge with the comparison off by one: the acknowledged input itself is kept.
PurgeKeepsAcked(buf, auth_last_seq) ==
    LET Unacked(pi) == pi.seq >= auth_last_seq
    IN  IF auth_last_seq > 0 /\ Len(buf) > 0 THEN SelectSeq(buf, Unacked) ELSE buf

\* [pi for pi in self.pending_inputs if pi.seq > auth_last_seq], run only when
\* auth_last_seq > 0 and the buffer is not empty.
Purge(buf, auth_last_seq) ==
    LET Unacked(pi) == pi.seq > auth_last_seq
    IN  IF auth_last_seq > 0 /\ Len(buf) > 0 THEN SelectSeq(buf, Unacked) ELSE buf

\* A replay that applies no input.
ReplayNone(p, buf, ps) == p

\* for pi in list(self.pending_inputs): self.core.step_player(reconciled, pi.flap, pipes_list)
\* step_player returns a dead player as it is, so the loop's result is fixed
\* once the player is dead.
RECURSIVE Replay(_, _, _)
Replay(p, buf, ps) ==
    IF buf = <<>> \/ ~p.alive THEN p
    ELSE Replay(ClientStepPlayer(p, Head(buf).flap, ps), Tail(buf), ps)

\* if len(self.pending_inputs) > 200: self.pending_inputs = self.pending_inputs[-100:]
Truncate(buf) == IF Len(buf) > PENDING_HIGH THEN LastN(buf, PENDING_LOW) ELSE buf

\* PlayerState(uname, float(y), float(v), bool(alive), int(score)) of a snapshot entry.
FromWire(uname, pdata) ==
    [username |-> uname, y |-> pdata.y, v |-> pdata.v, alive |-> pdata.alive,
     score |-> pdata.score]

\* ReconcileLocal that keeps the prediction's own alive and score when the
\* position is not re-baselined.
ReconcileLocalStale(lp, auth_p, buf, pipes_list) ==
    LET pred == LocalOrDefault(lp)
    IN  IF \/ Abs(pred.y - auth_p.y) > RECONCILE_THRESHOLD
           \/ Abs(pred.v - auth_p.v) > VELOCITY_THRESHOLD
        THEN Replay(FromWire(Me, auth_p), buf, pipes_list)
        ELSE pred

\* The local player after the divergence test of reconcile_with_authoritative:
\* re-baselined on the authority and replayed, or kept with the authority's
\* alive and score.
ReconcileLocal(lp, auth_p, buf, pipes_list) ==
    LET pred == LocalOrDefault(lp)
    IN  IF \/ Abs(pred.y - auth_p.y) > RECONCILE_THRESHOLD
           \/ Abs(pred.v - auth_p.v) > VELOCITY_THRESHOLD
        THEN Replay(FromWire(Me, auth_p), buf, pipes_list)
        ELSE [pred EXCEPT !.alive = auth_p.alive, !.score = auth_p.score]

\* self.local_players after reconciliation: the local player, every other
\* player of the snapshot, and whoever was there before.
ReconcilePlayers(lp, st, buf) ==
    [u \in DOMAIN lp \cup DOMAIN st.players |->
        IF u = Me THEN ReconcileLocal(lp, st.players[Me], buf, st.pipes)
        ELSE IF u \in DOMAIN st.players THEN FromWire(u, st.players[u])
        ELSE lp[u]]

ClientInit ==
    /\ local_players = <<>>
    /\ pipes = <<>>
    /\ next_input_seq = 1
    /\ pending_inputs = <<>>
    /\ latest_state = NoState
    /\ server_addr = ""
    /\ cl_pc = "start"
    /\ auth_state = NoState
    /\ last_sent = NoDatagram
    /\ cl_ticks = 0
    /\ logged_in = FALSE
    /\ cl_msg = ""
    /\ rec_tick = 0

\* run_game up to the main loop: discover_and_login (found or not), then
\* client.local_players[username] = PlayerState(username).
ClientStart(found) ==
    /\ cl_pc = "start"
    /\ server_addr' = IF found THEN "server" ELSE ""
    /\ last_sent' = IF found THEN [type |-> "login", seq |-> 0, flap |-> FALSE]
                    ELSE last_sent
    /\ local_players' = (Me :> NewPlayerState(Me)) @@ local_players
    /\ cl_pc' = "events"
    /\ UNCHANGED <<pipes, next_input_seq, pending_inputs, latest_state, auth_state,
                   cl_ticks>>
    /\ UNCHANGED <<serverVars, lockVars, engineVars, physVars, stopVars>>
    /\ UNCHANGED <<logged_in, cl_msg, rec_tick>>

\* NetworkClient._handle_message, mtype == "state": self.latest_state = msg.
\* The listen thread runs at any time; the main thread reads the slot only in
\* fetch_state at the start of a fixed tick, so only the last write before
\* that read is seen and the write is placed between the main thread's steps.
RecvState(msg) ==
    /\ cl_pc = "events"
    /\ server_addr # ""
    /\ latest_state' = msg
    /\ cl_msg' = "state"
    /\ UNCHANGED <<local_players, pipes, next_input_seq, pending_inputs, server_addr,
                   cl_pc, auth_state, last_sent, cl_ticks, logged_in, rec_tick>>
    /\ UNCHANGED <<serverVars, lockVars, engineVars, physVars, stopVars>>

\* send_flap that takes the sequence number and does not store the input.
SendFlapIssueNoAppend(maxSeq) ==
    /\ cl_pc = "events"
    /\ next_input_seq <= maxSeq
    /\ ~(Me \in DOMAIN local_players /\ ~local_players[Me].alive)
    /\ next_input_seq' = next_input_seq + 1
    /\ cl_pc' = "flap_send"
    /\ UNCHANGED <<local_players, pipes, pending_inputs, latest_state, server_addr,
                   auth_state, last_sent, cl_ticks>>
    /\ UNCHANGED <<serverVars, lockVars, engineVars, physVars, stopVars>>
    /\ UNCHANGED <<logged_in, cl_msg, rec_tick>>

\* send_flap up to self.pending_inputs.append(PendingInput(seq, True)); it
\* returns at once when the local player is dead.
SendFlapIssue(maxSeq) ==
    /\ cl_pc = "events"
    /\ next_input_seq <= maxSeq
    /\ ~(Me \in DOMAIN local_players /\ ~local_players[Me].alive)
    /\ next_input_seq' = next_input_seq + 1
    /\ pending_inputs' = Append(pending_inputs, [seq |-> next_input_seq, flap |-> TRUE])
    /\ cl_pc' = "flap_send"
    /\ UNCHANGED <<local_players, pipes, latest_state, server_addr, auth_state,
                   last_sent, cl_ticks>>
    /\ UNCHANGED <<serverVars, lockVars, engineVars, physVars, stopVars>>
    /\ UNCHANGED <<logged_in, cl_msg, rec_tick>>

\* send_flap: self.net.send_input(flap=True, seq=seq); send_json sends nothing
\* without a server address. seq is next_input_seq - 1 here.
SendFlapTransmit ==
    /\ cl_pc = "flap_send"
    /\ last_sent' = IF server_addr = "" THEN last_sent
                    ELSE [type |-> "input", seq |-> next_input_seq - 1, flap |-> TRUE]
    /\ cl_pc' = "flap_apply"
    /\ UNCHANGED <<local_players, pipes, next_input_seq, pending_inputs, latest_state,
                   server_addr, auth_state, cl_ticks>>
    /\ UNCHANGED <<serverVars, lockVars, engineVars, physVars, stopVars>>
    /\ UNCHANGED <<logged_in, cl_msg, rec_tick>>

\* send_flap: self.apply_input_local(True)
SendFlapApply ==
    /\ cl_pc = "flap_apply"
    /\ local_players' = (Me :> ClientStepPlayer(LocalOrDefault(local_players), TRUE, pipes))
                            @@ local_players
    /\ cl_pc' = "events"
    /\ UNCHANGED <<pipes, next_input_seq, pending_inputs, latest_state, server_addr,
                   auth_state, last_sent, cl_ticks>>
    /\ UNCHANGED <<serverVars, lockVars, engineVars, physVars, stopVars>>
    /\ UNCHANGED <<logged_in, cl_msg, rec_tick>>

\* run_game, K_r while the local player is dead: a respawn message and an
\* immediate local reset.
RespawnKey ==
    /\ cl_pc = "events"
    /\ Me \in DOMAIN local_players
    /\ ~local_players[Me].alive
    /\ last_sent' = IF server_addr = "" THEN last_sent
                    ELSE [type |-> "respawn", seq |-> 0, flap |-> FALSE]
    /\ local_players' = [local_players EXCEPT ![Me] = NewPlayerState(Me)]
    /\ UNCHANGED <<pipes, next_input_seq, pending_inputs, latest_state, server_addr,
                   cl_pc, auth_state, cl_ticks>>
    /\ UNCHANGED <<serverVars, lockVars, engineVars, physVars, stopVars>>
    /\ UNCHANGED <<logged_in, cl_msg, rec_tick>>

\* run_game's fixed tick, first half: auth_state = fetch_state() and, when it is
\* not empty, reconcile_with_authoritative(auth_state), which returns at once
\* when the snapshot does not hold the local player.
ClientTickReconcile(maxTicks) ==
    /\ cl_pc = "events"
    /\ cl_ticks < maxTicks
    /\ auth_state' = latest_state
    /\ IF latest_state.empty \/ Me \notin DOMAIN latest_state.players
       THEN UNCHANGED <<local_players, pipes, pending_inputs>>
       ELSE LET purged == Purge(pending_inputs, latest_state.players[Me].last_seq)
            IN  /\ local_players' = ReconcilePlayers(local_players, latest_state, purged)
                /\ pipes' = latest_state.pipes
                /\ pending_inputs' = Truncate(purged)
    /\ cl_pc' = "reconciled"
    /\ UNCHANGED <<next_input_seq, latest_state, server_addr, last_sent, cl_ticks>>
    /\ UNCHANGED <<serverVars, lockVars, engineVars, physVars, stopVars>>
    /\ rec_tick' = IF latest_state.empty THEN rec_tick ELSE latest_state.tick
    /\ UNCHANGED <<logged_in, cl_msg>>

\* run_game's fixed tick, second half: client.tick_local().
ClientTickLocal ==
    /\ cl_pc = "reconciled"
    /\ local_players' = (Me :> ClientStepPlayer(LocalOrDefault(local_players), FALSE, pipes))
                            @@ local_players
    /\ cl_ticks' = cl_ticks + 1
    /\ auth_state' = NoState
    /\ cl_pc' = "events"
    /\ UNCHANGED <<pipes, next_input_seq, pending_inputs, latest_state, server_addr,
                   last_sent>>
    /\ UNCHANGED <<serverVars, lockVars, engineVars, physVars, stopVars>>
    /\ UNCHANGED <<logged_in, cl_msg, rec_tick>>

\* ------------------------------------------------------------ snapshots a client receives
\* (y, v) of the authority's actor at spawn and after one tick without a flap.
AuthKinematics ==
    { [y |-> RESPAWN_Y * Unit, v |-> 0],
      [y |-> (RESPAWN_Y + 2) * Unit, v |-> 60 * Unit] }

\* The local actor's entry of a state message.
LocalViews(maxAck) ==
    { [y |-> k.y, v |-> k.v, alive |-> al, score |-> sc, last_seq |-> ls] :
        k \in AuthKinematics, al \in BOOLEAN, sc \in {0, 1}, ls \in 0..maxAck }

\* Another actor's entry of a state message.
RemoteView == [y |-> 300 * Unit, v |-> 0, alive |-> TRUE, score |-> 2, last_seq |-> 0]

\* What a state message holds beside the local actor: nothing, or another
\* actor and one pipe over BIRD_X.
Scenes ==
    { [others |-> <<>>, pipes |-> <<>>],
      [others |-> ("u2" :> RemoteView),
       pipes |-> <<[x |-> 60 * Unit, gap_y |-> 400 * Unit]>>] }

\* The state messages the client's specification delivers: with and without
\* the local actor.
Snapshots(maxAck) ==
    { [tick |-> 1, players |-> sc.others, pipes |-> sc.pipes, empty |-> FALSE] :
        sc \in Scenes }
    \cup
    { [tick |-> 1, players |-> (Me :> lv) @@ sc.others, pipes |-> sc.pipes,
       empty |-> FALSE] : lv \in LocalViews(maxAck), sc \in Scenes }

ClientNext ==
    \/ \E found \in BOOLEAN : ClientStart(found)
    \/ \E msg \in Snapshots(MaxAck) : RecvState(msg)
    \/ SendFlapIssue(MaxClientSeq)
    \/ SendFlapTransmit
    \/ SendFlapApply
    \/ RespawnKey
    \/ ClientTickReconcile(MaxClientTicks)
    \/ ClientTickLocal

\* The state messages of the buffer-overflow specification: one without the
\* local actor, one with it as it is right after login.
OverflowSnapshots ==
    { [tick |-> 1, players |-> <<>>, pipes |-> <<>>, empty |-> FALSE],
      [tick |-> 1,
       players |-> (Me :> [y |-> RESPAWN_Y * Unit, v |-> 0, alive |-> TRUE,
                           score |-> 0, last_seq |-> 0]),
       pipes |-> <<>>, empty |-> FALSE] }

OverflowNext ==
    \/ \E found \in BOOLEAN : ClientStart(found)
    \/ \E msg \in OverflowSnapshots : RecvState(msg)
    \/ SendFlapIssue(MaxOverflowSeq)
    \/ SendFlapTransmit
    \/ SendFlapApply
    \/ RespawnKey
    \/ ClientTickReconcile(MaxOverflowTicks)
    \/ ClientTickLocal

\* (y, velocity) of the authority's actor n ticks after its spawn when no flap
\* reached it.
RECURSIVE AuthAfter(_)
AuthAfter(n) ==
    IF n = 0 THEN [y |-> RESPAWN_Y * Unit, velocity |-> 0]
    ELSE ApplyGravityAndMovement(AuthAfter(n - 1).y, AuthAfter(n - 1).velocity)

\* The state messages of the specification of the snapshot slot: one per tick
\* of the authority, holding the local actor as the authority has it at that
\* tick.
SlotSnapshots ==
    { [tick |-> t,
       players |-> (Me :> [y |-> AuthAfter(t - 1).y, v |-> AuthAfter(t - 1).velocity,
                           alive |-> TRUE, score |-> 0, last_seq |-> 0]),
       pipes |-> <<>>, empty |-> FALSE] : t \in 1..MaxSlotTick }

\* The listener stores state messages in any order, each any number of times,
\* while the main thread handles flaps and runs its fixed ticks.
SlotNext ==
    \/ \E found \in BOOLEAN : ClientStart(found)
    \/ \E msg \in SlotSnapshots : RecvState(msg)
    \/ SendFlapIssue(MaxSlotSeq)
    \/ SendFlapTransmit
    \/ SendFlapApply
    \/ ClientTickReconcile(MaxSlotTicks)
    \/ ClientTickLocal

\* ------------------------------------------------------------ authority and client side by side
LockInit ==
    /\ lk_client = NewPlayerState(Me)
    /\ lk_server = NewPlayer(Me, "a1")
    /\ lk_ticks = 0

\* One tick on both sides with no loss, delay or reordering and no pipes: the
\* client runs send_flap (apply_input_local(True)) when flap is pressed and
\* then tick_local; the authority runs ServerEngine.step with that flap.
LockTick(flap) ==
    /\ lk_ticks < MaxLockTicks
    /\ flap => lk_client.alive
    /\ lk_client' = ClientStepPlayer(
                        IF flap THEN ClientStepPlayer(lk_client, TRUE, <<>>)
                        ELSE lk_client,
                        FALSE, <<>>)
    /\ lk_server' = StepServerPlayer(lk_server, flap, <<>>)
    /\ lk_ticks' = lk_ticks + 1
    /\ UNCHANGED <<serverVars, clientVars, engineVars, physVars, stopVars>>

LockNext == \E flap \in BOOLEAN : LockTick(flap)

\* ------------------------------------------------------------ physics_client.py
\* ClientEngine.step_player of physics_client.py, the engine built on
\* PhysicsCore: the same flap, movement and collision test as the authority,
\* then a dead player is clamped to the screen and stopped.
PhysicsClientStepPlayer(p, flap, pipe_list) ==
    IF ~p.alive THEN p
    ELSE LET v0 == IF flap THEN Flap ELSE p.v
             m == ApplyGravityAndMovement(p.y, v0)
             dead == CheckCollision(m.y, pipe_list)
         IN  [p EXCEPT !.y = IF dead THEN Max(Min(m.y, SCREEN_HEIGHT * Unit), 0) ELSE m.y,
                       !.v = IF dead THEN 0 ELSE m.velocity,
                       !.alive = ~dead]

\* ------------------------------------------------------------ one physics step on chosen arguments
\* Positions of a living actor: next to the ceiling, around the gap edges of a
\* pipe centred on the middle of the screen, and next to the floor.
PhysYs == {1 * Unit, 20 * Unit, 200 * Unit, 300 * Unit, 400 * Unit, 500 * Unit,
           780 * Unit, 799 * Unit}

\* Velocities a player has between calls: from the one after a flap, in steps
\* of GRAVITY_ACCEL * dt, to the fall limit.
PhysVs == {-540 * Unit, -60 * Unit, 0, 60 * Unit, 960 * Unit,
           MAX_FALL_VELOCITY * Unit}

\* Positions handed to check_collision: also on and beyond the screen edges.
CollideYs == PhysYs \cup {-14 * Unit, 0, SCREEN_HEIGHT * Unit, 8053332}

\* Pipe positions: right of the bird, on both ends of the span
\* [x - BIRD_RADIUS, x + PIPE_WIDTH + BIRD_RADIUS] around BIRD_X, one unit
\* inside them, over the bird, and left of it.
PhysPipeXs == {4716667, (BIRD_X + BIRD_RADIUS) * Unit, (BIRD_X + BIRD_RADIUS) * Unit - 1,
               60 * Unit, (BIRD_X - PIPE_WIDTH - BIRD_RADIUS) * Unit + 1,
               (BIRD_X - PIPE_WIDTH - BIRD_RADIUS) * Unit, -83333}

\* The pipe lists of a step: none, or one pipe.
PhysPipes ==
    {<<>>} \cup { <<[x |-> x, gap_y |-> g * Unit]>> : x \in PhysPipeXs, g \in GapYs }

NoPhys ==
    [op |-> "", y |-> 0, v |-> 0, flap |-> FALSE, pipes |-> <<>>,
     server |-> [y |-> 0, v |-> 0, alive |-> TRUE],
     client |-> [y |-> 0, v |-> 0, alive |-> TRUE], hit |-> FALSE]

PhysInit == ph = NoPhys

\* The authority's update of one living player (the loop body of
\* ServerEngine.step) and step_player of physics_client.py on the same
\* arguments.
PhysStep(y, v, flap, pipe_list) ==
    /\ ph = NoPhys
    /\ LET sp == StepServerPlayer([NewPlayer(Me, "a1") EXCEPT !.y = y, !.velocity = v],
                                  flap, pipe_list)
           cp == PhysicsClientStepPlayer([NewPlayerState(Me) EXCEPT !.y = y, !.v = v],
                                         flap, pipe_list)
       IN  ph' = [op |-> "step", y |-> y, v |-> v, flap |-> flap, pipes |-> pipe_list,
                  server |-> [y |-> sp.y, v |-> sp.velocity, alive |-> sp.alive],
                  client |-> [y |-> cp.y, v |-> cp.v, alive |-> cp.alive],
                  hit |-> ~sp.alive]
    /\ UNCHANGED <<serverVars, clientVars, lockVars, engineVars, stopVars>>

\* PhysicsCore.check_collision on chosen arguments.
PhysCollide(y, pipe_list) ==
    /\ ph = NoPhys
    /\ ph' = [NoPhys EXCEPT !.op = "collide", !.y = y, !.pipes = pipe_list,
                            !.hit = CheckCollision(y, pipe_list)]
    /\ UNCHANGED <<serverVars, clientVars, lockVars, engineVars, stopVars>>

PhysNext ==
    \/ \E y \in PhysYs, v \in PhysVs, flap \in BOOLEAN, pl \in PhysPipes :
          PhysStep(y, v, flap, pl)
    \/ \E y \in CollideYs, pl \in PhysPipes : PhysCollide(y, pl)

\* ------------------------------------------------------------ ServerEngine.step tick after tick
EngineInit ==
    /\ births = <<>>
    /\ credit = [u \in Users |-> <<>>]
    /\ flaps_used = 0

\* The spawn ticks of the pipes of new_pipes: _spawn_pipe appends, and the
\* filter of step drops the oldest pipes first.
BirthsAfter(eng, bs, new_pipes) ==
    LET b == IF SpawnDue(eng.pipe_spawn_counter + 1)
             THEN Append(bs, eng.tick_count + 1) ELSE bs
    IN  SubSeq(b, Len(b) - Len(new_pipes) + 1, Len(b))

\* The spawn ticks of the pipes for which this step runs player.score += 1.
CreditedNow(new_pipes, bs) ==
    LET idx == [i \in 1..Len(new_pipes) |-> i]
        Crossed(i) == CrossedBird(new_pipes[i])
        hit == SelectSeq(idx, Crossed)
    IN  [k \in 1..Len(hit) |-> bs[hit[k]]]

\* Number of living players of ps the flap inputs make flap (for a dead player
\* the flap is a respawn).
FlapCount(ps, flaps) ==
    Cardinality({i \in 1..Len(ps) : ps[i].alive /\ FlapOf(flaps, ps[i].id)})

\* One call of self.server_engine.step(self.players, flap_inputs) with any
\* flap inputs; the score loop runs for the players that were alive when the
\* call began.
EngineStep(flaps, gap, maxTicks, maxFlaps) ==
    /\ engine.tick_count < maxTicks
    /\ flaps_used + FlapCount(players, flaps) <= maxFlaps
    /\ engine' = StepPipes(engine, gap)
    /\ players' = StepPlayers(players, flaps, engine'.pipes)
    /\ births' = BirthsAfter(engine, births, engine'.pipes)
    /\ credit' = [u \in Users |->
                    IF InPlayers(players, u) /\ players[PlayerIdx(players, u)].alive
                    THEN credit[u] \o CreditedNow(engine'.pipes, births')
                    ELSE credit[u]]
    /\ flaps_used' = flaps_used + FlapCount(players, flaps)
    /\ UNCHANGED <<db, gl_pc, gl_idx, gl_len, flaps_this_tick, net_pc, net_msg,
                   snapshot, reply, wire, slot_seq, read_seq, applied, latest,
                   expected, logged_addrs, player_addrs>>
    /\ UNCHANGED <<clientVars, lockVars, physVars, stopVars>>

\* Logins and steps of the engine with a flap on any tick.
FlightNext ==
    \/ \E u \in Users : NetLogin(u, "p1", "a1")
    \/ \E flaps \in [Users -> BOOLEAN], gap \in GapYs :
          EngineStep(flaps, gap, MaxFlightTicks, MaxFlightTicks)

\* Logins and steps of the engine long enough for a pipe to spawn, cross the
\* bird and leave the world.
EngineNext ==
    \/ \E u \in Users : NetLogin(u, "p1", "a1")
    \/ \E flaps \in [Users -> BOOLEAN], gap \in GapYs :
          EngineStep(flaps, gap, MaxEngineTicks, MaxEngineFlaps)

\* Steps of the engine, with any gap for each pipe, past the second spawn.
PipesNext ==
    \E flaps \in [Users -> BOOLEAN], gap \in GapYs :
        EngineStep(flaps, gap, MaxPipeTicks, MaxEngineFlaps)

\* Logins and steps of the engine in which only dead players flap, that is,
\* respawn, until the first pipe has crossed the bird.
RespawnNext ==
    \/ \E u \in Users : NetLogin(u, "p1", "a1")
    \/ \E flaps \in [Users -> BOOLEAN], gap \in GapYs :
          EngineStep(flaps, gap, MaxRespawnTicks, MaxRespawnFlaps)

\* ------------------------------------------------------------ the receive loop
\* _network_loop on datagrams from any sender, with calls of the engine's step
\* between them.
NetNext ==
    \/ \E u \in Users, flap \in BOOLEAN : ClientSend(u, flap)
    \/ \E u \in Users, pw \in Passwords, a \in Senders : NetLogin(u, pw, a)
    \/ \E u \in Users, seq \in 1..MaxSeq, a \in Senders : NetInputFlap(u, seq, a)
    \/ NetInputSeq
    \/ \E a \in Senders : NetReject(a)
    \/ \E u \in Users, a \in Senders : NetDisconnect(u, a)
    \/ \E flaps \in [Users -> BOOLEAN], gap \in GapYs :
          EngineStep(flaps, gap, MaxNetTicks, MaxNetTicks)

\* ------------------------------------------------------------ login handshake
\* The address the client's socket sends from.
MyAddr == "a1"

\* _listen_loop hands a datagram the authority sent to this client to
\* _handle_message: the branches on "login_ok", "login_fail" and "state"; any
\* other type is ignored.
RecvReply ==
    /\ cl_pc # "start"
    /\ server_addr # ""
    /\ reply.type # ""
    /\ reply.to = MyAddr
    /\ cl_msg' = reply.type
    /\ logged_in' = IF reply.type = "login_ok" THEN TRUE
                    ELSE IF reply.type = "login_fail" THEN FALSE
                    ELSE logged_in
    /\ UNCHANGED <<local_players, pipes, next_input_seq, pending_inputs, latest_state,
                   server_addr, cl_pc, auth_state, last_sent, cl_ticks, rec_tick>>
    /\ UNCHANGED <<serverVars, lockVars, engineVars, physVars, stopVars>>

\* The client starts and logs in, the authority answers logins and other
\* datagrams, and its answers reach the client.
HandshakeNext ==
    \/ \E found \in BOOLEAN : ClientStart(found)
    \/ \E u \in Users, pw \in Passwords, a \in Senders : NetLogin(u, pw, a)
    \/ \E a \in Senders : NetReject(a)
    \/ RecvReply

\* The simulation loop runs its ticks while the receive loop takes each user's
\* first login, inputs and connection resets.
RaceNext ==
    \/ \E u \in Users, flap \in BOOLEAN : ClientSend(u, flap)
    \/ \E u \in Users, a \in Addrs : u \notin DOMAIN db /\ NetLogin(u, "p1", a)
    \/ \E u \in Users, seq \in 1..MaxSeq, a \in Addrs : NetInputFlap(u, seq, a)
    \/ NetInputSeq
    \/ \E a \in Addrs : NetConnReset(a)
    \/ GameTickStart
    \/ GameCrash
    \/ GameCollectRead
    \/ GameCollectReset
    \/ GameStep
    \/ GameSnapshot

ServerNext ==
    \/ \E u \in Users, flap \in BOOLEAN : ClientSend(u, flap)
    \/ \E u \in Users, pw \in Passwords, a \in Addrs : NetLogin(u, pw, a)
    \/ \E u \in Users, seq \in 1..MaxSeq, a \in Addrs : NetInputFlap(u, seq, a)
    \/ NetInputSeq
    \/ \E a \in Addrs : NetReject(a)
    \/ GameTickStart
    \/ GameCrash
    \/ GameCollectRead
    \/ GameCollectReset
    \/ GameStep
    \/ GameSnapshot

\* ------------------------------------------------------------ starting and stopping
\* The loops of the authority and of the client as their threads run them: the
\* test at the head of each loop, and what the body waits for.

\* After FlappyServer.__init__ (running is set, the three threads are created
\* and not started) and NetworkClient.__init__ (no listener yet).
StopInit ==
    /\ running = TRUE
    /\ stop_pc = "idle"
    /\ network_thread = "created"
    /\ game_thread = "created"
    /\ discovery_thread = "created"
    /\ inbox = 0
    /\ listening = FALSE
    /\ listen_thread = "none"

\* FlappyServer.start: the three threads start.
ServerStart ==
    /\ network_thread = "created"
    /\ network_thread' = "while"
    /\ game_thread' = "while"
    /\ discovery_thread' = "while"
    /\ UNCHANGED <<running, stop_pc, inbox, listening, listen_thread>>
    /\ UNCHANGED <<serverVars, clientVars, lockVars, engineVars, physVars>>

\* A datagram reaches game_sock.
DatagramArrives ==
    /\ inbox < MaxInbox
    /\ inbox' = inbox + 1
    /\ UNCHANGED <<running, stop_pc, network_thread, game_thread, discovery_thread,
                   listening, listen_thread>>
    /\ UNCHANGED <<serverVars, clientVars, lockVars, engineVars, physVars>>

\* _network_loop: while self.running.is_set().
NetworkLoopTest ==
    /\ network_thread = "while"
    /\ network_thread' = IF running THEN "recvfrom" ELSE "ended"
    /\ UNCHANGED <<running, stop_pc, game_thread, discovery_thread, inbox,
                   listening, listen_thread>>
    /\ UNCHANGED <<serverVars, clientVars, lockVars, engineVars, physVars>>

\* _network_loop: self.game_sock.recvfrom(65536) returns a waiting datagram and
\* the body handles it. game_sock has no timeout, so the call returns only when
\* there is a datagram.
NetworkLoopRecv ==
    /\ network_thread = "recvfrom"
    /\ inbox > 0
    /\ inbox' = inbox - 1
    /\ network_thread' = "while"
    /\ UNCHANGED <<running, stop_pc, game_thread, discovery_thread,
                   listening, listen_thread>>
    /\ UNCHANGED <<serverVars, clientVars, lockVars, engineVars, physVars>>

\* _game_loop: while self.running.is_set().
GameLoopTest ==
    /\ game_thread = "while"
    /\ game_thread' = IF running THEN "tick" ELSE "ended"
    /\ UNCHANGED <<running, stop_pc, network_thread, discovery_thread, inbox,
                   listening, listen_thread>>
    /\ UNCHANGED <<serverVars, clientVars, lockVars, engineVars, physVars>>

\* _game_loop: one tick and the sleep for the rest of TICK_TIME.
GameLoopTick ==
    /\ game_thread = "tick"
    /\ game_thread' = "while"
    /\ UNCHANGED <<running, stop_pc, network_thread, discovery_thread, inbox,
                   listening, listen_thread>>
    /\ UNCHANGED <<serverVars, clientVars, lockVars, engineVars, physVars>>

\* _discovery_loop: while self.running.is_set().
DiscoveryLoopTest ==
    /\ discovery_thread = "while"
    /\ discovery_thread' = IF running THEN "sleep" ELSE "ended"
    /\ UNCHANGED <<running, stop_pc, network_thread, game_thread, inbox,
                   listening, listen_thread>>
    /\ UNCHANGED <<serverVars, clientVars, lockVars, engineVars, physVars>>

\* _discovery_loop: the broadcast and time.sleep(2).
DiscoveryLoopSleep ==
    /\ discovery_thread = "sleep"
    /\ discovery_thread' = "while"
    /\ UNCHANGED <<running, stop_pc, network_thread, game_thread, inbox,
                   listening, listen_thread>>
    /\ UNCHANGED <<serverVars, clientVars, lockVars, engineVars, physVars>>

\* FlappyServer.stop up to self.running.clear(); main calls it on
\* KeyboardInterrupt, after start.
StopClear ==
    /\ stop_pc = "idle"
    /\ network_thread # "created"
    /\ running' = FALSE
    /\ stop_pc' = "join_network"
    /\ UNCHANGED <<network_thread, game_thread, discovery_thread, inbox,
                   listening, listen_thread>>
    /\ UNCHANGED <<serverVars, clientVars, lockVars, engineVars, physVars>>

\* FlappyServer.stop: the three joins in their order, each returning once its
\* thread has ended, then the sockets are closed and stop returns.
StopJoin ==
    /\ \/ stop_pc = "join_network" /\ network_thread = "ended" /\ stop_pc' = "join_game"
       \/ stop_pc = "join_game" /\ game_thread = "ended" /\ stop_pc' = "join_discovery"
       \/ stop_pc = "join_discovery" /\ discovery_thread = "ended" /\ stop_pc' = "returned"
    /\ UNCHANGED <<running, network_thread, game_thread, discovery_thread, inbox,
                   listening, listen_thread>>
    /\ UNCHANGED <<serverVars, clientVars, lockVars, engineVars, physVars>>

\* NetworkClient.start_listen.
StartListen ==
    /\ listen_thread = "none"
    /\ listening' = TRUE
    /\ listen_thread' = "while"
    /\ UNCHANGED <<running, stop_pc, network_thread, game_thread, discovery_thread, inbox>>
    /\ UNCHANGED <<serverVars, clientVars, lockVars, engineVars, physVars>>

\* _listen_loop: while self.listening.
ListenLoopTest ==
    /\ listen_thread = "while"
    /\ listen_thread' = IF listening THEN "recvfrom" ELSE "ended"
    /\ UNCHANGED <<running, stop_pc, network_thread, game_thread, discovery_thread,
                   inbox, listening>>
    /\ UNCHANGED <<serverVars, clientVars, lockVars, engineVars, physVars>>

\* _listen_loop: self.sock.recvfrom returns a datagram or, after the 2.0 s of
\* settimeout, raises socket.timeout; either way the loop goes on to its test.
ListenLoopRecv ==
    /\ listen_thread = "recvfrom"
    /\ listen_thread' = "while"
    /\ UNCHANGED <<running, stop_pc, network_thread, game_thread, discovery_thread,
                   inbox, listening>>
    /\ UNCHANGED <<serverVars, clientVars, lockVars, engineVars, physVars>>

\* NetworkClient.stop.
StopListen ==
    /\ listen_thread # "none"
    /\ listening
    /\ listening' = FALSE
    /\ UNCHANGED <<running, stop_pc, network_thread, game_thread, discovery_thread,
                   inbox, listen_thread>>
    /\ UNCHANGED <<serverVars, clientVars, lockVars, engineVars, physVars>>

\* The authority and a client are started and stopped while their loops run.
StopNext ==
    \/ ServerStart
    \/ DatagramArrives
    \/ StopClear
    \/ StartListen
    \/ StopListen
    \/ NetworkLoopTest
    \/ NetworkLoopRecv
    \/ GameLoopTest
    \/ GameLoopTick
    \/ DiscoveryLoopTest
    \/ DiscoveryLoopSleep
    \/ StopJoin
    \/ ListenLoopTest
    \/ ListenLoopRecv

Init == ServerInit /\ ClientInit /\ LockInit /\ EngineInit /\ PhysInit /\ StopInit

Next == ServerNext

Spec == Init /\ [][Next]_vars

SpecClient == Init /\ [][ClientNext]_vars

SpecOverflow == Init /\ [][OverflowNext]_vars

SpecLockstep == Init /\ [][LockNext]_vars

SpecFlight == Init /\ [][FlightNext]_vars

SpecEngine == Init /\ [][EngineNext]_vars

SpecPipes == Init /\ [][PipesNext]_vars

SpecRespawn == Init /\ [][RespawnNext]_vars

SpecPhysics == Init /\ [][PhysNext]_vars

SpecHandshake == Init /\ [][HandshakeNext]_vars

SpecSlot == Init /\ [][SlotNext]_vars

SpecNet == Init /\ [][NetNext]_vars

SpecRace == Init /\ [][RaceNext]_vars

\* Every thread that can take a step is scheduled again and again; nothing
\* obliges a datagram to arrive, or anyone to call start or stop.
SpecStop ==
    /\ Init
    /\ [][StopNext]_vars
    /\ WF_vars(NetworkLoopTest \/ NetworkLoopRecv)
    /\ WF_vars(GameLoopTest \/ GameLoopTick)
    /\ WF_vars(DiscoveryLoopTest \/ DiscoveryLoopSleep)
    /\ WF_vars(ListenLoopTest \/ ListenLoopRecv)
    /\ WF_vars(StopJoin)

\* ------------------------------------------------------------ claims on the authority
\* C1: for every actor, the last_seq the authority reports never decreases from
\* one snapshot to the next, whatever order its input datagrams are handled in.
C1_AckMonotone ==
    [][\A u \in (DOMAIN snapshot.players) \cap (DOMAIN snapshot'.players) :
          snapshot'.players[u].last_seq >= snapshot.players[u].last_seq]_vars

\* C2: whenever a snapshot reports last_seq = s for an actor, a simulation step
\* at or before that snapshot's tick has consumed the flap of input s.
C2_AckedIsApplied ==
    \A u \in DOMAIN snapshot.players :
        \/ snapshot.players[u].last_seq = 0
        \/ snapshot.players[u].last_seq \in applied[u]

\* C3: the flap a tick applies for an actor is the flap of the last input
\* handled for it before that tick's collection (FALSE if there was none since
\* the collection before), so no handled input is lost unless a later one
\* replaced it.
C3_LatestInputApplied ==
    gl_pc = "snapshot" =>
        \A u \in DOMAIN flaps_this_tick : flaps_this_tick[u] = expected[u]

\* ------------------------------------------------------------ claims on the client
\* C4: with no loss and the same start, after any number of ticks with the same
\* flaps on both sides the client's (y, v) is within one rounding unit of the
\* authority's.
C4_Convergence ==
    /\ Abs(lk_client.y - lk_server.y) <= 1
    /\ Abs(lk_client.v - lk_server.velocity) <= 1

\* reconcile_with_authoritative has just returned from a snapshot that holds
\* the local actor.
ReconciledWithLocal ==
    /\ cl_pc = "reconciled"
    /\ ~auth_state.empty
    /\ Me \in DOMAIN auth_state.players

\* C5: after a reconciliation against a snapshot holding the local actor no
\* buffered input has a sequence number <= that snapshot's last_seq.
C5_PurgeCorrect ==
    ReconciledWithLocal =>
        \A i \in 1..Len(pending_inputs) :
            pending_inputs[i].seq > auth_state.players[Me].last_seq

\* A reconciliation whose purge dropped acknowledged inputs and kept the rest.
C5_Witness ==
    /\ ReconciledWithLocal
    /\ auth_state.players[Me].last_seq >= 1
    /\ Len(pending_inputs) >= 1
    /\ pending_inputs[1].seq = auth_state.players[Me].last_seq + 1

\* C6: a reconciliation that finds the local prediction dead and the snapshot's
\* local actor alive leaves the pending buffer empty.
C6_RespawnClearsBuffer ==
    [][ ( /\ cl_pc = "events"
          /\ cl_pc' = "reconciled"
          /\ ~auth_state'.empty
          /\ Me \in DOMAIN auth_state'.players
          /\ ~local_players[Me].alive
          /\ auth_state'.players[Me].alive )
        => pending_inputs' = <<>> ]_vars

\* C7: after every reconciliation on a received snapshot, with or without the
\* local actor, the buffer holds at most PENDING_HIGH entries, and a buffer
\* that was longer is cut to its PENDING_LOW entries of highest sequence.
C7_BoundedBuffer ==
    [][ ( /\ cl_pc = "events"
          /\ cl_pc' = "reconciled"
          /\ ~auth_state'.empty )
        => /\ Len(pending_inputs') <= PENDING_HIGH
           /\ Len(pending_inputs) > PENDING_HIGH
                 => pending_inputs' = LastN(pending_inputs, PENDING_LOW) ]_vars

\* C8: every fixed tick issues exactly one input, so between ticks the number
\* of sequence numbers issued equals the number of ticks executed.
C8_OneInputPerTick ==
    cl_pc = "events" => next_input_seq - 1 = cl_ticks

\* C9: sequence numbers are issued 1, 2, 3, ... without repeats, the buffer is
\* always strictly ascending, and an input handed to the transport is already
\* in the buffer.
C9_Sequencing ==
    /\ [](/\ \A i \in 1..Len(pending_inputs) :
                pending_inputs[i].seq \in 1..(next_input_seq - 1)
          /\ \A i \in 1..(Len(pending_inputs) - 1) :
                pending_inputs[i].seq < pending_inputs[i + 1].seq)
    /\ [][ next_input_seq' # next_input_seq
             => /\ next_input_seq' = next_input_seq + 1
                /\ pending_inputs' =
                       Append(pending_inputs, [seq |-> next_input_seq, flap |-> TRUE]) ]_vars
    /\ [][ (last_sent' # last_sent /\ last_sent'.type = "input")
             => \E i \in 1..Len(pending_inputs) :
                    /\ pending_inputs[i].seq = last_sent'.seq
                    /\ pending_inputs[i].flap = last_sent'.flap ]_vars

\* The second input has been sent and both inputs are in the buffer.
C9_Witness ==
    /\ last_sent = [type |-> "input", seq |-> 2, flap |-> TRUE]
    /\ Len(pending_inputs) = 2

\* C10: after a reconciliation against a snapshot holding the local actor the
\* local score is the snapshot's, and a snapshot that says dead leaves the
\* local actor dead, whether or not the position was re-baselined.
C10_AdoptAliveAndScore ==
    ReconciledWithLocal =>
        /\ local_players[Me].score = auth_state.players[Me].score
        /\ ~auth_state.players[Me].alive => ~local_players[Me].alive

\* A reconciliation that kept the predicted position (it differs from the
\* authority's) and took over a death and a new score.
C10_Witness ==
    /\ ReconciledWithLocal
    /\ ~auth_state.players[Me].alive
    /\ auth_state.players[Me].score = 1
    /\ local_players[Me].y # auth_state.players[Me].y
    /\ ~local_players[Me].alive
    /\ local_players[Me].score = 1

\* ------------------------------------------------------------ claims on the engine
\* C11: in every state of the authority every actor has |velocity| <=
\* MAX_FALL_VELOCITY and every living actor has 0 < y < SCREEN_HEIGHT; an actor
\* whose y leaves that interval in a step is dead after that step, and its y is
\* the one the kinematics gave, not a clamped one.
C11_ActorBounds ==
    /\ [](\A i \in 1..Len(players) :
            /\ Abs(players[i].velocity) <= MAX_FALL_VELOCITY * Unit
            /\ players[i].alive =>
                  (0 < players[i].y /\ players[i].y < SCREEN_HEIGHT * Unit))
    /\ [][\A i \in 1..Len(players) :
            ( /\ players[i].alive
              /\ engine'.tick_count # engine.tick_count
              /\ (players'[i].y <= 0 \/ players'[i].y >= SCREEN_HEIGHT * Unit) )
            => /\ ~players'[i].alive
               /\ players'[i].y \in
                     { ApplyGravityAndMovement(players[i].y, players[i].velocity).y,
                       ApplyGravityAndMovement(players[i].y, Flap).y }]_vars

\* An actor fell through the floor at the fall limit: it is dead and below the
\* screen.
C11_Witness ==
    \E i \in 1..Len(players) :
        /\ ~players[i].alive
        /\ players[i].y > SCREEN_HEIGHT * Unit
        /\ players[i].velocity = MAX_FALL_VELOCITY * Unit

\* The pipes of pipe_list that were spawned by the step that just ran: they are
\* at SCREEN_WIDTH moved once, where no older pipe is.
FreshPipes(pipe_list) ==
    {i \in 1..Len(pipe_list) :
        pipe_list[i].x = MovePipe([x |-> SCREEN_WIDTH * Unit, gap_y |-> 0]).x}

\* C12: every call of step adds one to the tick counter and at most one pipe; a
\* pipe is added exactly in the calls in which the countdown reaches
\* PIPE_SPAWN_INTERVAL_TICKS, and the countdown is 0 after them, so between
\* calls it is in 0 .. PIPE_SPAWN_INTERVAL_TICKS - 1.
C12_TickAndSpawn ==
    /\ [](engine.pipe_spawn_counter \in 0..(PIPE_SPAWN_INTERVAL_TICKS - 1))
    /\ [][engine' # engine =>
            /\ engine'.tick_count = engine.tick_count + 1
            /\ Len(engine'.pipes) <= Len(engine.pipes) + 1
            /\ Cardinality(FreshPipes(engine'.pipes)) <= 1
            /\ (FreshPipes(engine'.pipes) # {}) <=>
                   (engine.pipe_spawn_counter + 1 = PIPE_SPAWN_INTERVAL_TICKS)
            /\ (FreshPipes(engine'.pipes) # {}) => engine'.pipe_spawn_counter = 0
            /\ (FreshPipes(engine'.pipes) = {}) =>
                   engine'.pipe_spawn_counter = engine.pipe_spawn_counter + 1]_vars

\* The call that spawned the first pipe has returned.
C12_Witness ==
    /\ engine.tick_count = PIPE_SPAWN_INTERVAL_TICKS
    /\ Len(engine.pipes) = 1
    /\ engine.pipe_spawn_counter = 0

\* C13: for every actor and every pipe the score is incremented for that pipe
\* in at most one tick, the one in which the pipe's x goes from >= BIRD_X to
\* < BIRD_X, whatever the steps, deaths and respawns.
C13_ScoreOncePerPipe ==
    /\ [](\A u \in Users : \A j, k \in 1..Len(credit[u]) :
            j # k => credit[u][j] # credit[u][k])
    /\ [][\A i \in 1..Len(players) :
            LET u == players[i].id
                added == Len(credit'[u]) - Len(credit[u])
            IN  /\ (players[i].alive /\ engine' # engine)
                       => players'[i].score = players[i].score + added
                /\ \A k \in (Len(credit[u]) + 1)..Len(credit'[u]) :
                       \E m \in 1..Len(births), n \in 1..Len(births') :
                           /\ births[m] = credit'[u][k]
                           /\ births'[n] = credit'[u][k]
                           /\ engine.pipes[m].x >= BIRD_X * Unit
                           /\ engine'.pipes[n].x < BIRD_X * Unit]_vars

\* The actor was credited for the first pipe, died and respawned while that
\* pipe is still in the world.
C13_Witness ==
    /\ Len(players) = 1
    /\ credit[players[1].id] = <<PIPE_SPAWN_INTERVAL_TICKS>>
    /\ players[1].alive
    /\ players[1].score = 0
    /\ births = <<PIPE_SPAWN_INTERVAL_TICKS>>
    /\ engine.pipes[1].x < BIRD_X * Unit

\* ------------------------------------------------------------ claims on one physics step
\* C14: on the same (y, v, flap, pipes) step_player of the client engine and
\* the authority's update of a player give the same (y, v, alive), also when
\* the actor dies in the step.
C14_SameStep ==
    ph.op = "step" => ph.client = ph.server

\* C15: a step of a living actor takes v0 = JUMP_IMPULSE if flap else v, then
\* v1 = min(v0 + GRAVITY_ACCEL * dt, MAX_FALL_VELOCITY), then y1 = y + v1 * dt,
\* and returns both rounded to 4 decimals; y = 400, v = 0 without a flap gives
\* v = 60.0, y = 402.0 and a living actor.
C15_StepFormula ==
    ph.op = "step" =>
        LET v0 == IF ph.flap THEN JUMP_IMPULSE * Unit ELSE ph.v
            v30 == Min(SERVER_TICK_RATE * v0 + GRAVITY_ACCEL * Unit,
                       SERVER_TICK_RATE * MAX_FALL_VELOCITY * Unit)
        IN  /\ 2 * Abs(SERVER_TICK_RATE * ph.server.v - v30) <= SERVER_TICK_RATE
            /\ 2 * Abs(SERVER_TICK_RATE * SERVER_TICK_RATE * (ph.server.y - ph.y) - v30)
                  <= SERVER_TICK_RATE * SERVER_TICK_RATE
            /\ (ph.y = 400 * Unit /\ ph.v = 0 /\ ~ph.flap /\ ph.pipes = <<>>)
                  => ph.server = [y |-> 402 * Unit, v |-> 60 * Unit, alive |-> TRUE]

\* The step of the scenario has run: y = 400, v = 0, no flap, no pipes.
C15_Witness ==
    /\ ph.op = "step"
    /\ ph.y = 400 * Unit
    /\ ph.v = 0
    /\ ~ph.flap
    /\ ph.pipes = <<>>
    /\ ph.server.y = 402 * Unit

\* C16: check_collision(y, pipes) is true exactly when y <= 0, or
\* y >= SCREEN_HEIGHT, or BIRD_X is in the closed span
\* [x - BIRD_RADIUS, x + PIPE_WIDTH + BIRD_RADIUS] of a pipe while y is not
\* strictly between gap_y - PIPE_GAP / 2 and gap_y + PIPE_GAP / 2.
C16_CollisionSpec ==
    ph.op = "collide" =>
        ( ph.hit <=>
            \/ ph.y <= 0
            \/ ph.y >= SCREEN_HEIGHT * Unit
            \/ \E i \in 1..Len(ph.pipes) :
                  /\ ph.pipes[i].x - BIRD_RADIUS * Unit <= BIRD_X * Unit
                  /\ BIRD_X * Unit <= ph.pipes[i].x + (PIPE_WIDTH + BIRD_RADIUS) * Unit
                  /\ ~ ( /\ 2 * ph.pipes[i].gap_y - PIPE_GAP * Unit < 2 * ph.y
                         /\ 2 * ph.y < 2 * ph.pipes[i].gap_y + PIPE_GAP * Unit ) )

\* ------------------------------------------------------------ claims on malformed messages
\* C17: a reconciliation against a snapshot that does not hold the local actor
\* still replaces the client's pipes and the records of the other actors with
\* the snapshot's.
C17_AbsentLocalStillAdopts ==
    [][ ( /\ cl_pc = "events"
          /\ cl_pc' = "reconciled"
          /\ ~auth_state'.empty
          /\ Me \notin DOMAIN auth_state'.players )
        => /\ pipes' = auth_state'.pipes
           /\ \A u \in DOMAIN auth_state'.players :
                 /\ u \in DOMAIN local_players'
                 /\ local_players'[u] = FromWire(u, auth_state'.players[u]) ]_vars

\* ------------------------------------------------------------ claims on the receive loop
\* C18: a datagram of an unknown type, or an input datagram from an address
\* that has not completed a login, is answered with a rejection and changes no
\* actor: when the receive loop takes an input from an address no login_success
\* went to, it leaves the players as they are and replies with the rejection.
C18_RejectsStrangers ==
    [][ ( /\ net_pc = "recv"
          /\ net_pc' = "input_seq"
          /\ net_msg'.addr \notin logged_addrs )
        => /\ players' = players
           /\ reply' = [type |-> "unknown_message", to |-> net_msg'.addr] ]_vars

\* What the claim says of a login of u with password pw from a.
LoginOutcome(u, pw, a) ==
    /\ u \notin DOMAIN db =>
          /\ u \in DOMAIN db'
          /\ db'[u].password = pw
          /\ InPlayers(players', u)
          /\ reply' = [type |-> "login_success", to |-> a]
    /\ (u \in DOMAIN db /\ db[u].password # pw) =>
          /\ players' = players
          /\ db' = db
          /\ reply' = [type |-> "login_failed", to |-> a]
    /\ (u \in DOMAIN db /\ db[u].password = pw /\ InPlayers(players, u)) =>
          /\ players' = players
          /\ reply' = [type |-> "login_success", to |-> a]

\* C19: a login with an unknown username registers it and creates its actor; a
\* login with a known username and another password is rejected and creates or
\* changes no actor; a repeated successful login for a username whose actor
\* exists leaves that actor as it is.
C19_LoginIdempotent ==
    [][\A u \in Users, pw \in Passwords, a \in Senders :
          NetLogin(u, pw, a) => LoginOutcome(u, pw, a)]_vars

\* A repeated login from a second address has been answered with login_success
\* while the actor, created from the first address, has moved and acknowledged
\* an input.
C19_Witness ==
    /\ reply = [type |-> "login_success", to |-> "a2"]
    /\ Len(players) = 1
    /\ players[1].addr = "a1"
    /\ players[1].last_seq_received = 1
    /\ players[1].y # RESPAWN_Y * Unit

\* ------------------------------------------------------------ claims on the login handshake
\* C20: once the authority's confirmation of a login has been delivered to the
\* client, the client is logged in; once its rejection has been delivered, the
\* client is not logged in.
C20_HandshakeCompletes ==
    /\ cl_msg = "login_success" => logged_in
    /\ cl_msg = "login_failed" => ~logged_in

\* ------------------------------------------------------------ claims on leaving
\* C21: after the receive loop has processed a disconnect message from a
\* logged-in client, that client's actor is no longer in the actor map.
C21_DisconnectRemoves ==
    [][\A u \in Users, a \in Senders :
          ( /\ NetDisconnect(u, a)
            /\ a \in logged_addrs
            /\ InPlayers(players, u)
            /\ players[PlayerIdx(players, u)].addr = a )
          => ~InPlayers(players', u)]_vars

\* ------------------------------------------------------------ claims on stopping
\* C22: once the stop signal is raised, the simulation loop, the receive loop
\* and the discovery loop of the authority end and FlappyServer.stop returns,
\* even if no datagram ever arrives; and once the client's listener is told to
\* stop, its receive loop ends.
C22_StopTerminates ==
    /\ (stop_pc # "idle") ~> ( /\ network_thread = "ended"
                               /\ game_thread = "ended"
                               /\ discovery_thread = "ended"
                               /\ stop_pc = "returned" )
    /\ (listen_thread # "none" /\ ~listening) ~> (listen_thread = "ended")

\* ------------------------------------------------------------ claims on dead actors
\* C23: in every state of the authority every dead actor has velocity 0.
C23_DeadHasZeroVelocity ==
    \A i \in 1..Len(players) : ~players[i].alive => players[i].velocity = 0

\* C24: a call of step leaves a dead actor whose flap input is false as it
\* was, in y, velocity, alive and score, however the pipes move in that call.
C24_DeadUntouched ==
    [][\A flaps \in [Users -> BOOLEAN], gap \in GapYs :
          EngineStep(flaps, gap, MaxRespawnTicks, MaxRespawnFlaps) =>
              \A i \in 1..Len(players) :
                  (~players[i].alive /\ ~FlapOf(flaps, players[i].id))
                      => players'[i] = players[i]]_vars

\* A dead actor that never scored lies below the screen while the first pipe
\* has gone past the bird's column.
C24_Witness ==
    /\ Len(players) = 1
    /\ ~players[1].alive
    /\ players[1].y > SCREEN_HEIGHT * Unit
    /\ credit[players[1].id] = <<>>
    /\ Len(engine.pipes) >= 1
    /\ engine.pipes[1].x < BIRD_X * Unit

\* C25: a call of step in which a dead actor's flap input is true sets that
\* actor to y = RESPAWN_Y, velocity = 0, alive, score = 0 and does nothing else
\* to it: no gravity, no movement, no collision test, no scoring.
C25_RespawnExact ==
    [][\A flaps \in [Users -> BOOLEAN], gap \in GapYs :
          EngineStep(flaps, gap, MaxRespawnTicks, MaxRespawnFlaps) =>
              \A i \in 1..Len(players) :
                  (~players[i].alive /\ FlapOf(flaps, players[i].id))
                      => players'[i] = [players[i] EXCEPT !.y = RESPAWN_Y * Unit,
                                                          !.velocity = 0,
                                                          !.alive = TRUE,
                                                          !.score = 0]]_vars

\* An actor stands respawned, with score 0, at a height where the pipe that
\* crossed the bird's column in this very call would have killed it.
C25_Witness ==
    /\ Len(players) = 1
    /\ players[1].alive
    /\ players[1].y = RESPAWN_Y * Unit
    /\ players[1].velocity = 0
    /\ players[1].score = 0
    /\ engine.tick_count > PIPE_SPAWN_INTERVAL_TICKS
    /\ \E k \in 1..Len(engine.pipes) : CrossedBird(engine.pipes[k])
    /\ CheckCollision(players[1].y, engine.pipes)

\* C26: the score is incremented for living actors only: an actor that is dead
\* when a call of step returns, the actor that died in that call included, has
\* the score it had before the call.
C26_NoScoreForDead ==
    [][\A i \in 1..Len(players) :
          ( /\ engine'.tick_count # engine.tick_count
            /\ ~players'[i].alive )
          => players'[i].score = players[i].score]_vars

\* ------------------------------------------------------------ claims on the snapshot slot
\* C27: the client reconciles only when the slot holds a snapshot newer than
\* the one it reconciled last, so it reconciles against each received snapshot
\* at most once.
C27_ReconcileOnce ==
    [][ ( /\ cl_pc = "events"
          /\ cl_pc' = "reconciled"
          /\ ~auth_state'.empty
          /\ Me \in DOMAIN auth_state'.players )
        => auth_state'.tick > rec_tick ]_vars

\* C30: the tick of the snapshot in the latest-snapshot slot never decreases,
\* whatever datagrams are lost and in whatever order they arrive.
C30_SlotTickMonotone ==
    [][latest_state'.tick >= latest_state.tick]_vars

\* ------------------------------------------------------------ claims on the replay
\* p advanced by one step_player call for each of the first n inputs of buf, in
\* the buffer's order, against the pipes ps.
RECURSIVE StepsOver(_, _, _, _)
StepsOver(p, buf, n, ps) ==
    IF n = 0 THEN p
    ELSE ClientStepPlayer(StepsOver(p, buf, n - 1, ps), buf[n].flap, ps)

\* The divergence test of reconcile_with_authoritative is about to succeed on
\* the snapshot in the slot.
Diverges ==
    /\ ~latest_state.empty
    /\ Me \in DOMAIN latest_state.players
    /\ \/ Abs(LocalOrDefault(local_players).y - latest_state.players[Me].y)
              > RECONCILE_THRESHOLD
       \/ Abs(LocalOrDefault(local_players).v - latest_state.players[Me].v)
              > VELOCITY_THRESHOLD

\* C28: when a reconciliation adopts the authority's baseline, the local actor
\* afterwards is that baseline advanced by one physics step for each input
\* left in the buffer by the purge, in ascending sequence order, against the
\* snapshot's pipes; the purged inputs are not replayed.
C28_ReplayFromBaseline ==
    [][ ( /\ cl_pc = "events"
          /\ cl_pc' = "reconciled"
          /\ Diverges )
        => /\ \A i \in 1..Len(pending_inputs') :
                 /\ pending_inputs'[i].seq > auth_state'.players[Me].last_seq
                 /\ i > 1 => pending_inputs'[i].seq > pending_inputs'[i - 1].seq
           /\ local_players'[Me] =
                 StepsOver(FromWire(Me, auth_state'.players[Me]), pending_inputs',
                           Len(pending_inputs'), auth_state'.pipes) ]_vars

\* After two flaps the authority acknowledged the first: the local actor is the
\* snapshot's actor with the second flap replayed against the snapshot's pipe.
C28_Witness ==
    /\ ReconciledWithLocal
    /\ auth_state.players[Me].last_seq = 1
    /\ auth_state.players[Me].alive
    /\ auth_state.pipes # <<>>
    /\ Len(pending_inputs) = 1
    /\ pending_inputs[1].seq = 2
    /\ local_players[Me] # FromWire(Me, auth_state.players[Me])
    /\ local_players[Me] = ClientStepPlayer(FromWire(Me, auth_state.players[Me]), TRUE,
                                            auth_state.pipes)

\* C29: after a reconciliation against a snapshot holding the local actor the
\* client's pipes are the snapshot's pipes in their order, and its remote
\* actors are exactly the snapshot's other actors with the snapshot's values:
\* an actor the snapshot does not hold is no longer on the client.
C29_MirrorsSnapshot ==
    ReconciledWithLocal =>
        /\ pipes = auth_state.pipes
        /\ DOMAIN local_players \ {Me} = DOMAIN auth_state.players \ {Me}
        /\ \A u \in DOMAIN auth_state.players \ {Me} :
               u \in DOMAIN local_players
                  => local_players[u] = FromWire(u, auth_state.players[u])

\* ------------------------------------------------------------ claims on the simulation loop
\* C31: a login or a disconnect the receive loop handles while the simulation
\* loop is iterating over the actor map never stops the simulation loop: the
\* tick completes and later ticks and snapshots go on being produced. Stated
\* for a change of the map that comes after the loop body has run for an actor:
\* the loop does not end at the iterator's next step.
C31_LoopSurvives ==
    ~(gl_pc = "crashed" /\ gl_idx > 1)


\* ------------------------------------------------------------ claims on the pipes
\* C32: in every state of the authority after a step every pipe has its gap_y
\* in [PIPE_GAP / 2, SCREEN_HEIGHT - PIPE_GAP / 2] and its trailing edge
\* x + PIPE_WIDTH > 0, the list of pipes is in non-decreasing order of x, and
\* with the configured speed, width and spawn interval there is at most one
\* pipe at any time.
C32_PipeInvariants ==
    /\ \A i \in 1..Len(engine.pipes) :
          /\ engine.pipes[i].gap_y >= (PIPE_GAP \div 2) * Unit
          /\ engine.pipes[i].gap_y <= (SCREEN_HEIGHT - PIPE_GAP \div 2) * Unit
          /\ engine.pipes[i].x + PIPE_WIDTH * Unit > 0
    /\ \A i, j \in 1..Len(engine.pipes) :
          i < j => engine.pipes[i].x <= engine.pipes[j].x
    /\ Len(engine.pipes) <= 1

\* The first pipe has left the world and the second one, spawned by call 180,
\* is the only pipe.
C32_Witness ==
    /\ engine.tick_count > 2 * PIPE_SPAWN_INTERVAL_TICKS
    /\ births = <<2 * PIPE_SPAWN_INTERVAL_TICKS>>
    /\ Len(engine.pipes) = 1
    /\ engine.pipes[1].x < SCREEN_WIDTH * Unit

====
